---- MODULE Spec2Model ----
(***************************************************************************)
(* Model of frontend/static/js/app.js: the two-step brand wizard, the      *)
(* lookup and analyze calls, the progress animation and the metrics        *)
(* renderer.  Text typed into fields is a sequence of characters, messages *)
(* shown to the user are strings, an optional JSON member is <<>> when     *)
(* absent and <<v>> when present.                                          *)
(***************************************************************************)
EXTENDS Integers, Sequences, FiniteSets, TLC

\* ---------------------------------------------------------------- bounds
\* requests (lookup and analyze together) that may be awaiting at once
MaxInFlight == 2
\* ticks of the interval observed where the cap is not the subject
MaxTicks == 1
\* longest list of series given to buildDatasetsFromSeries
MaxSeries == 11
\* how far below 0 and above 100 the percentages given to the clamp reach
PercentSlack == 3

\* ------------------------------------------------------- program constants
ProgressCap == 90
ProgressFull == 100
MaxDatasets == 10
NumChartColors == 10

\* ------------------------------------------------------------ text helpers
SP == " "

RECURSIVE TrimLeft(_)
TrimLeft(s) == IF s /= <<>> /\ Head(s) = SP THEN TrimLeft(Tail(s)) ELSE s

RECURSIVE TrimRight(_)
TrimRight(s) ==
    IF s /= <<>> /\ s[Len(s)] = SP THEN TrimRight(SubSeq(s, 1, Len(s) - 1)) ELSE s

\* String.prototype.trim
Trim(s) == TrimRight(TrimLeft(s))

None == <<>>
Some(v) == <<v>>

\* a ?? b for an optional text member: only an absent member falls back
OrTextMissingOnly(o, d) == IF o /= None THEN o[1] ELSE d

\* a || b for an optional text member: absent and "" are both falsy
OrText(o, d) == IF o /= None /\ o[1] /= <<>> THEN o[1] ELSE d

\* a || 0 and a ?? 0 for an optional numeric member
OrZero(o) == IF o /= None THEN o[1] ELSE 0

Min(a, b) == IF a < b THEN a ELSE b
Max(a, b) == IF a > b THEN a ELSE b

RemoveAt(s, i) == SubSeq(s, 1, i - 1) \o SubSeq(s, i + 1, Len(s))

\* ------------------------------------------------------------ user inputs
NameInputs == { <<SP>>, <<SP, "a", SP>> }
DescInputs == { <<"d", SP>> }
Step2NameInputs == { <<SP>> }

\* ------------------------------------------------------- server responses
Statuses == {200, 500}

MsgEmptyName == "Please enter a brand name."
MsgNetwork == "Something went wrong while contacting the server."
MsgServer == "Brand not found"
MsgInvalid(status) == "Server returned an invalid response (" \o ToString(status) \o ")."
MsgBackend(status) == "Backend error: " \o ToString(status)

\* bodies of /brand/lookup/: "invalid" is a body that is not JSON, "null" the
\* JSON value null, the others JSON objects
LookupFull ==
    [kind |-> "object", error |-> None,
     brand_name |-> Some(<<"b">>), brand_description |-> Some(<<"e">>),
     brand_url |-> Some(<<"u">>), region |-> Some(<<"r">>),
     language |-> Some(<<"l">>), initial_topics |-> Some(<<"t">>)]
LookupSparse ==
    [kind |-> "object", error |-> None,
     brand_name |-> Some(<<>>), brand_description |-> None,
     brand_url |-> None, region |-> None,
     language |-> None, initial_topics |-> None]
LookupError == [LookupSparse EXCEPT !.error = Some(MsgServer)]
LookupErrorBlank == [LookupFull EXCEPT !.error = Some("")]
LookupInvalid == [LookupSparse EXCEPT !.kind = "invalid"]
LookupNull == [LookupSparse EXCEPT !.kind = "null"]
LookupBodies ==
    {LookupFull, LookupSparse, LookupError, LookupErrorBlank, LookupInvalid, LookupNull}

\* bodies of /brand/analyze/; metric values are in tenths
SeriesA == [name |-> <<"a">>, values |-> <<1, 2>>]
SeriesB == [name |-> <<"b">>, values |-> <<3, 4>>]
AnalyzeFull ==
    [kind |-> "object", brand |-> Some(<<"b">>),
     brand_share_pct |-> Some(125), avg_rank |-> Some(31), citations |-> Some(7),
     used |-> Some(3), total |-> Some(4),
     labels |-> <<"w1", "w2">>,
     visibility |-> <<SeriesB, SeriesA>>, rank |-> <<SeriesA>>,
     donut |-> <<[label |-> <<"a">>, value |-> 60], [label |-> <<"b">>, value |-> 40]>>]
AnalyzeSparse ==
    [kind |-> "object", brand |-> None,
     brand_share_pct |-> None, avg_rank |-> None, citations |-> None,
     used |-> None, total |-> None,
     labels |-> <<>>, visibility |-> <<>>, rank |-> <<>>, donut |-> <<>>]
AnalyzeInvalid == [AnalyzeSparse EXCEPT !.kind = "invalid"]
AnalyzeBodies == {AnalyzeFull, AnalyzeSparse, AnalyzeInvalid}

\* ------------------------------------------------------------------ state
VARIABLES
    backdrop,        \* TRUE when the modal backdrop has class is-visible
    step1, step2,    \* TRUE when the step has class is-active
    modalTitle,
    errorBox,        \* [display, textContent]
    nextBtn,         \* [disabled, textContent]
    brandNameStep1, brandDescStep1,
    brandNameStep2, brandDescStep2, brandUrlStep2,
    brandRegionStep2, brandLangStep2, brandTopicsStep2,
    analysisBar,     \* TRUE when the status bar is shown
    analysisProgress,\* [percent, used, total] as displayed
    cards,           \* the three scorecards
    trendState,      \* [labels, visibilityDatasets, rankDatasets, currentMetric]
    visibilityTrendChart, mentionsDonutChart, trendTopicSelect,
    trendChartsCreated, donutChartsCreated, \* Chart instances constructed so far
    progressInterval,\* handle of the interval, 0 for null
    visualProgress,
    timers,          \* ids of the intervals the browser has active
    calls,           \* async invocations suspended at an await, in issue order
    probe            \* arguments of a function exercised on its own, <<>> otherwise

wizardVars ==
    <<backdrop, step1, step2, modalTitle, errorBox, nextBtn,
      brandNameStep1, brandDescStep1>>
step2Fields ==
    <<brandNameStep2, brandDescStep2, brandUrlStep2,
      brandRegionStep2, brandLangStep2, brandTopicsStep2>>
barVars == <<analysisBar, analysisProgress>>
timerVars == <<progressInterval, visualProgress, timers>>
metricVars ==
    <<cards, trendState, visibilityTrendChart, mentionsDonutChart,
      trendTopicSelect, trendChartsCreated, donutChartsCreated>>
vars == <<wizardVars, step2Fields, barVars, timerVars, metricVars, calls, probe>>


\* ------------------------------------------------------- display helpers
\* showError(msg)
showError(msg) ==
    IF msg = "" THEN [display |-> "none", textContent |-> ""]
    ELSE [display |-> "block", textContent |-> msg]

\* the clamp without its lower limit
updateAnalysisProgressNoFloor(percent, used, total) ==
    [percent |-> Min(percent, ProgressFull), used |-> used, total |-> total]

\* the clamp with the cap of the animation as its upper limit
updateAnalysisProgressCapped(percent, used, total) ==
    [percent |-> Min(Max(percent, 0), ProgressCap), used |-> used, total |-> total]

\* updateAnalysisProgress(percent, used, total)
updateAnalysisProgress(percent, used, total) ==
    [percent |-> Min(Max(percent, 0), ProgressFull), used |-> used, total |-> total]

\* Number.prototype.toFixed(1) of a value held in tenths: <<integer part, decimal>>
toFixed1(x) == <<x \div 10, x % 10>>

DefaultBrandLabel == <<"B", "r", "a", "n", "d">>
DefaultBrandSubtitle == <<"b", "r", "a", "n", "d">>

\* updateMetricCardsFromAnalysis(data, fallbackBrandName)
updateMetricCardsFromAnalysis(data, fallbackBrandName) ==
    LET brandName == OrText(data.brand, fallbackBrandName) IN
    [label |-> IF brandName /= <<>> THEN brandName ELSE DefaultBrandLabel,
     subtitle |-> IF brandName /= <<>> THEN brandName ELSE DefaultBrandSubtitle,
     mentions |-> toFixed1(OrZero(data.brand_share_pct)),
     avgRank |-> toFixed1(OrZero(data.avg_rank)),
     citations |-> OrZero(data.citations)]

\* parseTopics(topicsText): split on newlines, trim, drop empties
NL == "\n"
RECURSIVE SplitLines(_, _)
SplitLines(s, cur) ==
    IF s = <<>> THEN <<cur>>
    ELSE IF Head(s) = NL THEN <<cur>> \o SplitLines(Tail(s), <<>>)
    ELSE SplitLines(Tail(s), Append(cur, Head(s)))

RECURSIVE DropEmpty(_)
DropEmpty(ls) ==
    IF ls = <<>> THEN <<>>
    ELSE IF Head(ls) = <<>> THEN DropEmpty(Tail(ls))
    ELSE <<Head(ls)>> \o DropEmpty(Tail(ls))

parseTopics(topicsText) ==
    IF topicsText = <<>> THEN <<>>
    ELSE LET lines == SplitLines(topicsText, <<>>) IN
         DropEmpty([i \in 1..Len(lines) |-> Trim(lines[i])])

\* populateTopicDropdown(topics): the "All Topics" option has the empty value
populateTopicDropdown(topics) == <<<<>>>> \o topics

\* buildDatasetsFromSeries(series, brandName), array form.  Array.includes
\* compares by identity, so the entries of `ordered` are positions in series.
RECURSIVE AppendMissing(_, _, _)
AppendMissing(ordered, n, i) ==
    IF i > n THEN ordered
    ELSE AppendMissing(
            IF \E k \in 1..Len(ordered) : ordered[k] = i THEN ordered
            ELSE Append(ordered, i), n, i + 1)

\* the limit applied before the focal brand is looked for
buildDatasetsFromSeriesSliceFirst(series, brandName) ==
    LET head == SubSeq(series, 1, Min(Len(series), MaxDatasets))
        found == {i \in 1..Len(head) : head[i].name = brandName}
        main == IF brandName /= <<>> /\ found /= {}
                THEN <<CHOOSE i \in found : \A j \in found : i <= j>>
                ELSE <<>>
        ordered == AppendMissing(main, Len(head), 1)
    IN [idx \in 1..Len(ordered) |->
          [label |-> head[ordered[idx]].name,
           data |-> head[ordered[idx]].values,
           color |-> (idx - 1) % NumChartColors]]

buildDatasetsFromSeries(series, brandName) ==
    LET found == {i \in 1..Len(series) : series[i].name = brandName}
        main == IF brandName /= <<>> /\ found /= {}
                THEN <<CHOOSE i \in found : \A j \in found : i <= j>>
                ELSE <<>>
        ordered == AppendMissing(main, Len(series), 1)
        limited == SubSeq(ordered, 1, Min(Len(ordered), MaxDatasets))
    IN [idx \in 1..Len(limited) |->
          [label |-> series[limited[idx]].name,
           data |-> series[limited[idx]].values,
           color |-> (idx - 1) % NumChartColors]]

YTitle(metric) == IF metric = "rank" THEN "Average Rank" ELSE "Share of Voice (%)"

\* createOrUpdateTrendChart(metric): the chart's content after the call; the
\* instance is constructed when there was none and mutated in place otherwise
trendChartContent(ts, metric) ==
    [labels |-> ts.labels,
     datasets |-> IF metric = "rank" THEN ts.rankDatasets ELSE ts.visibilityDatasets,
     beginAtZero |-> (metric = "visibility"),
     yTitle |-> YTitle(metric)]

\* createOrUpdateDonutChart(donutData)
donutChartContent(donutData) ==
    [labels |-> [i \in 1..Len(donutData) |-> donutData[i].label],
     values |-> [i \in 1..Len(donutData) |-> donutData[i].value],
     colors |-> [i \in 1..Len(donutData) |-> (i - 1) % NumChartColors]]

\* ------------------------------------------------------ progress animation
NewTimerId(ts) == CHOOSE i \in 1..(Cardinality(ts) + 1) : i \notin ts /\ \A j \in 1..(i - 1) : j \in ts

\* the handle is dropped and clearInterval is not called
stopProgressAnimationHandleOnly(pi, ts) == [progressInterval |-> 0, timers |-> ts]

\* stopProgressAnimation()
stopProgressAnimation(pi, ts) ==
    IF pi /= 0 THEN [progressInterval |-> 0, timers |-> ts \ {pi}]
    ELSE [progressInterval |-> pi, timers |-> ts]

\* a start that does not stop the interval already running
startProgressAnimationNoStop(pi, ts) ==
    LET id == NewTimerId(ts)
    IN [progressInterval |-> id, timers |-> ts \cup {id}, visualProgress |-> 0]

\* startProgressAnimation(): stop, reset visualProgress, setInterval
startProgressAnimation(pi, ts) ==
    LET stopped == stopProgressAnimation(pi, ts)
        id == NewTimerId(stopped.timers)
    IN [progressInterval |-> id, timers |-> stopped.timers \cup {id},
        visualProgress |-> 0]

\* the callback with the full percentage as its limit
tickAdvancesToFull(vp) == vp < ProgressFull

\* the condition under which the interval callback increments
tickAdvances(vp) == vp < ProgressCap

\* ------------------------------------------------------------------- Init
InitCards ==
    [label |-> <<>>, subtitle |-> <<>>, mentions |-> toFixed1(0),
     avgRank |-> toFixed1(0), citations |-> 0]

\* the page after the DOMContentLoaded handler has run
InitPage ==
    /\ backdrop = FALSE
    /\ step1 = TRUE /\ step2 = FALSE
    /\ modalTitle = "Add New Brand"
    /\ errorBox = showError("")
    /\ nextBtn = [disabled |-> FALSE, textContent |-> "Next"]
    /\ brandNameStep1 = <<>> /\ brandDescStep1 = <<>>
    /\ brandNameStep2 = <<>> /\ brandDescStep2 = <<>> /\ brandUrlStep2 = <<>>
    /\ brandRegionStep2 = <<>> /\ brandLangStep2 = <<>> /\ brandTopicsStep2 = <<>>
    /\ analysisBar = FALSE
    /\ analysisProgress = updateAnalysisProgress(0, 0, 0)
    /\ cards = InitCards
    /\ trendState = [labels |-> <<>>, visibilityDatasets |-> <<>>,
                     rankDatasets |-> <<>>, currentMetric |-> "visibility"]
    /\ visibilityTrendChart = None
    /\ mentionsDonutChart = None
    /\ trendTopicSelect = <<>>
    /\ trendChartsCreated = 0 /\ donutChartsCreated = 0
    /\ progressInterval = 0
    /\ visualProgress = 0
    /\ timers = {}
    /\ calls = <<>>

Init == InitPage /\ probe = <<>>

\* ------------------------------------------------------------ the wizard
\* a reset that leaves the fields of step 2 as they are
resetModalKeepingStep2 ==
    /\ step1' = TRUE /\ step2' = FALSE
    /\ errorBox' = showError("")
    /\ modalTitle' = "Add New Brand"
    /\ brandNameStep1' = <<>> /\ brandDescStep1' = <<>>
    /\ UNCHANGED step2Fields
    /\ nextBtn' = [disabled |-> FALSE, textContent |-> "Next"]

\* resetModal(): the wizard's variables after the call
resetModal ==
    /\ step1' = TRUE /\ step2' = FALSE
    /\ errorBox' = showError("")
    /\ modalTitle' = "Add New Brand"
    /\ brandNameStep1' = <<>> /\ brandDescStep1' = <<>>
    /\ brandNameStep2' = <<>> /\ brandDescStep2' = <<>> /\ brandUrlStep2' = <<>>
    /\ brandRegionStep2' = <<>> /\ brandLangStep2' = <<>> /\ brandTopicsStep2' = <<>>
    /\ nextBtn' = [disabled |-> FALSE, textContent |-> "Next"]

\* openModal(), bound to the click on openBrandModal (behind the backdrop
\* while the modal is shown)
openModal ==
    /\ ~backdrop
    /\ resetModal
    /\ backdrop' = TRUE
    /\ UNCHANGED <<barVars, timerVars, metricVars, calls>>
    /\ UNCHANGED probe

\* closeModal(), bound to the close and cancel buttons and the backdrop
closeModal ==
    /\ backdrop
    /\ backdrop' = FALSE
    /\ UNCHANGED <<step1, step2, modalTitle, errorBox, nextBtn,
                   brandNameStep1, brandDescStep1,
                   step2Fields, barVars, timerVars, metricVars, calls>>
    /\ UNCHANGED probe

\* the user types into a field of the step that is shown
typeStep1(name, desc) ==
    /\ backdrop /\ step1
    /\ brandNameStep1' = name /\ brandDescStep1' = desc
    /\ UNCHANGED <<backdrop, step1, step2, modalTitle, errorBox, nextBtn,
                   step2Fields, barVars, timerVars, metricVars, calls>>
    /\ UNCHANGED probe

typeStep2(name) ==
    /\ backdrop /\ step2
    /\ brandNameStep2' = name
    /\ UNCHANGED <<wizardVars, brandDescStep2, brandUrlStep2, brandRegionStep2,
                   brandLangStep2, brandTopicsStep2,
                   barVars, timerVars, metricVars, calls>>
    /\ UNCHANGED probe

\* the state of the advance control while a lookup is awaited
nextBtnBusy(useRegenerate) ==
    [disabled |-> TRUE,
     textContent |-> IF useRegenerate THEN "Re-generating..." ELSE "Generating..."]

\* a finally block that restores the label only
nextBtnRelabelled == [disabled |-> TRUE, textContent |-> "Next"]

\* the state of the advance control set by the finally block of goToStep2
nextBtnRestored == [disabled |-> FALSE, textContent |-> "Next"]

\* goToStep2 without the trim of the name it reads
lookupBrandNameUntrimmed(rawName) == rawName

\* the brand name goToStep2 validates and sends
lookupBrandName(rawName) == Trim(rawName)

\* goToStep2(useRegenerate) up to its first await
goToStep2(useRegenerate) ==
    LET rawName == IF useRegenerate THEN brandNameStep2 ELSE brandNameStep1
        rawDesc == IF useRegenerate THEN brandDescStep2 ELSE brandDescStep1
        brandName == lookupBrandName(rawName)
        brandDesc == rawDesc
    IN IF brandName = <<>>
       THEN /\ errorBox' = showError(MsgEmptyName)
            /\ UNCHANGED <<nextBtn, calls>>
       ELSE /\ Len(calls) < MaxInFlight
            /\ nextBtn' = nextBtnBusy(useRegenerate)
            /\ errorBox' = showError("")
            /\ calls' = Append(calls,
                   [api |-> "lookup", pc |-> "fetch", status |-> 0,
                    brandName |-> brandName, brandDesc |-> brandDesc,
                    useRegenerate |-> useRegenerate])

\* click on brandStepNext; a disabled button receives no click
nextBtnClick ==
    /\ backdrop /\ step1 /\ ~nextBtn.disabled
    /\ goToStep2(FALSE)
    /\ UNCHANGED <<backdrop, step1, step2, modalTitle,
                   brandNameStep1, brandDescStep1,
                   step2Fields, barVars, timerVars, metricVars>>
    /\ UNCHANGED probe

\* click on brandRegenerate
brandRegenerateBtnClick ==
    /\ backdrop /\ step2
    /\ goToStep2(TRUE)
    /\ UNCHANGED <<backdrop, step1, step2, modalTitle,
                   brandNameStep1, brandDescStep1,
                   step2Fields, barVars, timerVars, metricVars>>
    /\ UNCHANGED probe

\* fetch("/brand/lookup/") settles for the call at position i: it rejects
\* (network failure: catch, then finally) or resolves with a status
lookupFetchSettles(i, failed, status) ==
    /\ i \in 1..Len(calls)
    /\ calls[i].api = "lookup" /\ calls[i].pc = "fetch"
    /\ IF failed
       THEN /\ errorBox' = showError(MsgNetwork)
            /\ nextBtn' = nextBtnRestored
            /\ calls' = RemoveAt(calls, i)
       ELSE /\ calls' = [calls EXCEPT ![i].pc = "json", ![i].status = status]
            /\ UNCHANGED <<errorBox, nextBtn>>
    /\ UNCHANGED <<backdrop, step1, step2, modalTitle,
                   brandNameStep1, brandDescStep1,
                   step2Fields, barVars, timerVars, metricVars>>
    /\ UNCHANGED probe

\* resp.ok
respOk(status) == status >= 200 /\ status <= 299

\* the test without its !resp.ok half
lookupRejectedOnErrorOnly(status, data) ==
    data.error /= None /\ data.error[1] /= ""

\* the test !resp.ok || data.error
lookupRejected(status, data) ==
    ~respOk(status) \/ (data.error /= None /\ data.error[1] /= "")

\* the message shown for a rejected lookup: data.error || `Backend error: ...`
lookupErrorMessage(status, data) ==
    IF data.error /= None /\ data.error[1] /= "" THEN data.error[1]
    ELSE MsgBackend(status)

\* a response dropped when the wizard was reset since its request was sent
lookupJsonSettlesUnlessReset(i, data) ==
    /\ i \in 1..Len(calls)
    /\ calls[i].api = "lookup" /\ calls[i].pc = "json"
    /\ LET c == calls[i] IN
       CASE ~nextBtn.disabled ->
              UNCHANGED <<step1, step2, modalTitle, errorBox, step2Fields>>
         [] nextBtn.disabled /\ data.kind = "invalid" ->
              /\ errorBox' = showError(MsgInvalid(c.status))
              /\ UNCHANGED <<step1, step2, modalTitle, step2Fields>>
         [] nextBtn.disabled /\ data.kind = "null" ->
              /\ errorBox' = showError(MsgNetwork)
              /\ UNCHANGED <<step1, step2, modalTitle, step2Fields>>
         [] nextBtn.disabled /\ data.kind = "object" /\ lookupRejected(c.status, data) ->
              /\ errorBox' = showError(lookupErrorMessage(c.status, data))
              /\ UNCHANGED <<step1, step2, modalTitle, step2Fields>>
         [] OTHER ->
              /\ brandNameStep2' = OrText(data.brand_name, c.brandName)
              /\ brandDescStep2' = OrText(data.brand_description, c.brandDesc)
              /\ brandUrlStep2' = OrText(data.brand_url, <<>>)
              /\ brandRegionStep2' = OrText(data.region, <<>>)
              /\ brandLangStep2' = OrText(data.language, <<>>)
              /\ brandTopicsStep2' = OrText(data.initial_topics, <<>>)
              /\ step1' = FALSE /\ step2' = TRUE
              /\ modalTitle' = "Configure Brand"
              /\ UNCHANGED errorBox
    /\ nextBtn' = nextBtnRestored
    /\ calls' = RemoveAt(calls, i)
    /\ UNCHANGED <<backdrop, brandNameStep1, brandDescStep1,
                   barVars, timerVars, metricVars>>
    /\ UNCHANGED probe

\* resp.json() settles for the call at position i and goToStep2 runs to its end
lookupJsonSettles(i, data) ==
    /\ i \in 1..Len(calls)
    /\ calls[i].api = "lookup" /\ calls[i].pc = "json"
    /\ LET c == calls[i] IN
       CASE data.kind = "invalid" ->
              /\ errorBox' = showError(MsgInvalid(c.status))
              /\ UNCHANGED <<step1, step2, modalTitle, step2Fields>>
         [] data.kind = "null" ->
              \* data.error throws a TypeError, caught by the outer catch
              /\ errorBox' = showError(MsgNetwork)
              /\ UNCHANGED <<step1, step2, modalTitle, step2Fields>>
         [] data.kind = "object" /\ lookupRejected(c.status, data) ->
              /\ errorBox' = showError(lookupErrorMessage(c.status, data))
              /\ UNCHANGED <<step1, step2, modalTitle, step2Fields>>
         [] OTHER ->
              /\ brandNameStep2' = OrText(data.brand_name, c.brandName)
              /\ brandDescStep2' = OrText(data.brand_description, c.brandDesc)
              /\ brandUrlStep2' = OrText(data.brand_url, <<>>)
              /\ brandRegionStep2' = OrText(data.region, <<>>)
              /\ brandLangStep2' = OrText(data.language, <<>>)
              /\ brandTopicsStep2' = OrText(data.initial_topics, <<>>)
              /\ step1' = FALSE /\ step2' = TRUE
              /\ modalTitle' = "Configure Brand"
              /\ UNCHANGED errorBox
    /\ nextBtn' = nextBtnRestored
    /\ calls' = RemoveAt(calls, i)
    /\ UNCHANGED <<backdrop, brandNameStep1, brandDescStep1,
                   barVars, timerVars, metricVars>>
    /\ UNCHANGED probe

\* ------------------------------------------------------- metrics renderer
\* a chart constructed on every call
createOrUpdateTrendChartAlwaysNew(ts, metric) ==
    /\ visibilityTrendChart' = Some(trendChartContent(ts, metric))
    /\ trendState' = [ts EXCEPT !.currentMetric = metric]
    /\ trendChartsCreated' = trendChartsCreated + 1

\* createOrUpdateTrendChart(metric), given the trend state it reads
createOrUpdateTrendChart(ts, metric) ==
    /\ visibilityTrendChart' = Some(trendChartContent(ts, metric))
    /\ trendState' = [ts EXCEPT !.currentMetric = metric]
    /\ trendChartsCreated' =
          IF visibilityTrendChart = None THEN trendChartsCreated + 1
          ELSE trendChartsCreated

\* createOrUpdateDonutChart(donutData)
createOrUpdateDonutChart(donutData) ==
    /\ mentionsDonutChart' = Some(donutChartContent(donutData))
    /\ donutChartsCreated' =
          IF mentionsDonutChart = None THEN donutChartsCreated + 1
          ELSE donutChartsCreated

\* updateChartsFromAnalysis(data, brandName, topicsText)
updateChartsFromAnalysis(data, brandName, topicsText) ==
    /\ createOrUpdateTrendChart(
          [labels |-> data.labels,
           visibilityDatasets |-> buildDatasetsFromSeries(data.visibility, brandName),
           rankDatasets |-> buildDatasetsFromSeries(data.rank, brandName),
           currentMetric |-> trendState.currentMetric],
          "visibility")
    /\ createOrUpdateDonutChart(data.donut)
    /\ trendTopicSelect' = populateTopicDropdown(parseTopics(topicsText))

\* click on a trend tab
trendTabClick(metric) ==
    /\ createOrUpdateTrendChart(trendState, metric)
    /\ UNCHANGED <<wizardVars, step2Fields, barVars, timerVars,
                   cards, mentionsDonutChart, donutChartsCreated,
                   trendTopicSelect, calls>>
    /\ UNCHANGED probe

\* ------------------------------------------------------- analysis runner
\* the interval callback of timer t fires
progressTick(t) ==
    /\ t \in timers
    /\ IF tickAdvances(visualProgress)
       THEN /\ visualProgress' = visualProgress + 1
            /\ analysisProgress' = updateAnalysisProgress(visualProgress + 1, 0, 0)
       ELSE UNCHANGED <<visualProgress, analysisProgress>>
    /\ UNCHANGED <<wizardVars, step2Fields, analysisBar,
                   progressInterval, timers, metricVars, calls>>
    /\ UNCHANGED probe

\* runBrandAnalysisFromStep2() up to its first await
runBrandAnalysisFromStep2 ==
    LET brandName == Trim(brandNameStep2)
        topicsText == Trim(brandTopicsStep2)
    IN IF brandName = <<>>
       THEN UNCHANGED <<barVars, timerVars, calls>>
       ELSE /\ Len(calls) < MaxInFlight
            /\ analysisBar' = TRUE
            /\ analysisProgress' = updateAnalysisProgress(0, 0, 0)
            /\ LET started == startProgressAnimation(progressInterval, timers) IN
                 /\ progressInterval' = started.progressInterval
                 /\ timers' = started.timers
                 /\ visualProgress' = started.visualProgress
            /\ calls' = Append(calls,
                   [api |-> "analyze", pc |-> "fetch", status |-> 0,
                    brandName |-> brandName, topicsText |-> topicsText,
                    body |-> [brand_name |-> brandName,
                              brand_description |-> Trim(brandDescStep2),
                              brand_url |-> Trim(brandUrlStep2),
                              region |-> Trim(brandRegionStep2),
                              language |-> Trim(brandLangStep2),
                              initial_topics |-> topicsText]])

\* click on brandCreateBtn: closeModal(), then runBrandAnalysisFromStep2()
createBtnClick ==
    /\ backdrop /\ step2
    /\ backdrop' = FALSE
    /\ runBrandAnalysisFromStep2
    /\ UNCHANGED <<step1, step2, modalTitle, errorBox, nextBtn,
                   brandNameStep1, brandDescStep1, step2Fields, metricVars>>
    /\ UNCHANGED probe

\* the await of fetch("/brand/analyze/") with a catch that leaves the interval
analyzeFetchSettlesNoStop(i, failed, status) ==
    /\ i \in 1..Len(calls)
    /\ calls[i].api = "analyze" /\ calls[i].pc = "fetch"
    /\ calls' = IF failed THEN RemoveAt(calls, i)
                ELSE [calls EXCEPT ![i].pc = "json", ![i].status = status]
    /\ UNCHANGED <<wizardVars, step2Fields, barVars, timerVars, metricVars>>
    /\ UNCHANGED probe

\* fetch("/brand/analyze/") settles for the call at position i
analyzeFetchSettles(i, failed, status) ==
    /\ i \in 1..Len(calls)
    /\ calls[i].api = "analyze" /\ calls[i].pc = "fetch"
    /\ IF failed
       THEN /\ LET stopped == stopProgressAnimation(progressInterval, timers) IN
                 /\ progressInterval' = stopped.progressInterval
                 /\ timers' = stopped.timers
            /\ calls' = RemoveAt(calls, i)
       ELSE /\ calls' = [calls EXCEPT ![i].pc = "json", ![i].status = status]
            /\ UNCHANGED <<progressInterval, timers>>
    /\ UNCHANGED <<wizardVars, step2Fields, barVars, visualProgress, metricVars>>
    /\ UNCHANGED probe

\* rendering only while the modal is closed
analyzeAcceptedWhileClosed(status, data) == ~backdrop /\ data.kind /= "invalid"

\* whether runBrandAnalysisFromStep2 renders the body it parsed
analyzeAccepted(status, data) == data.kind /= "invalid"

\* resp.json() settles for the call at position i and the runner runs to its end
analyzeJsonSettles(i, data) ==
    /\ i \in 1..Len(calls)
    /\ calls[i].api = "analyze" /\ calls[i].pc = "json"
    /\ LET c == calls[i]
           stopped == stopProgressAnimation(progressInterval, timers)
       IN /\ progressInterval' = stopped.progressInterval
          /\ timers' = stopped.timers
          /\ IF analyzeAccepted(c.status, data)
             THEN /\ analysisProgress' =
                        updateAnalysisProgress(ProgressFull, OrZero(data.used), OrZero(data.total))
                  /\ cards' = updateMetricCardsFromAnalysis(data, c.brandName)
                  /\ updateChartsFromAnalysis(data, c.brandName, c.topicsText)
             ELSE UNCHANGED <<analysisProgress, metricVars>>
    /\ calls' = RemoveAt(calls, i)
    /\ UNCHANGED <<wizardVars, step2Fields, analysisBar, visualProgress>>
    /\ UNCHANGED probe

\* ------------------------------------------------------ the specifications
\* Several environments drive the same handlers.  Spec exercises the wizard
\* with every lookup outcome, analyze requests failing on the network;
\* AnalyzeSpec exercises every analyze outcome behind a successful lookup;
\* ProgressSpec lets the interval run up to its cap.

\* the interval callback fires while fewer than MaxTicks points are shown
progressTickBounded(t) == visualProgress < MaxTicks /\ progressTick(t)

LookupFetchStep ==
    \E i \in 1..Len(calls), failed \in BOOLEAN, status \in Statuses :
        lookupFetchSettles(i, failed, status)
LookupJsonStep ==
    \E i \in 1..Len(calls), data \in LookupBodies : lookupJsonSettles(i, data)

Next ==
    \/ openModal
    \/ \E name \in NameInputs, desc \in DescInputs : typeStep1(name, desc)
    \/ \E name \in Step2NameInputs : typeStep2(name)
    \/ nextBtnClick
    \/ brandRegenerateBtnClick
    \/ createBtnClick
    \/ closeModal
    \/ LookupFetchStep
    \/ LookupJsonStep
    \/ \E i \in 1..Len(calls) : analyzeFetchSettles(i, TRUE, 200)

Spec == Init /\ [][Next]_vars

\* every request is answered or fails: each await of a lookup settles
FairSpec == Spec /\ WF_vars(LookupFetchStep) /\ WF_vars(LookupJsonStep)

AnalyzeNext ==
    \/ openModal
    \/ closeModal
    \/ \E name \in {<<SP, "a", SP>>}, desc \in DescInputs : typeStep1(name, desc)
    \/ nextBtnClick
    \/ createBtnClick
    \/ \E i \in 1..Len(calls) : lookupFetchSettles(i, FALSE, 200)
    \/ \E i \in 1..Len(calls), data \in {LookupFull, LookupSparse} :
          lookupJsonSettles(i, data)
    \/ \E i \in 1..Len(calls), failed \in BOOLEAN, status \in Statuses :
          analyzeFetchSettles(i, failed, status)
    \/ \E i \in 1..Len(calls), data \in AnalyzeBodies : analyzeJsonSettles(i, data)
    \/ \E t \in timers : progressTickBounded(t)

AnalyzeSpec == Init /\ [][AnalyzeNext]_vars

ProgressNext ==
    \/ openModal
    \/ \E name \in {<<SP, "a", SP>>}, desc \in DescInputs : typeStep1(name, desc)
    \/ nextBtnClick
    \/ createBtnClick
    \/ \E i \in 1..Len(calls) : lookupFetchSettles(i, FALSE, 200)
    \/ \E i \in 1..Len(calls) : lookupJsonSettles(i, LookupFull)
    \/ \E i \in 1..Len(calls), failed \in BOOLEAN :
          analyzeFetchSettles(i, failed, 200)
    \/ \E i \in 1..Len(calls), data \in {AnalyzeSparse, AnalyzeInvalid} :
          analyzeJsonSettles(i, data)
    \/ \E t \in timers : progressTick(t)

ProgressSpec == Init /\ [][ProgressNext]_vars

\* the wizard, the analysis and the trend tabs together: lookups answered
\* with a full body or an error, analyze requests answered with a body
Metrics == {"visibility", "rank"}

TabsNext ==
    \/ openModal
    \/ closeModal
    \/ \E name \in NameInputs, desc \in DescInputs : typeStep1(name, desc)
    \/ nextBtnClick
    \/ createBtnClick
    \/ \E i \in 1..Len(calls) : lookupFetchSettles(i, FALSE, 200)
    \/ \E i \in 1..Len(calls), data \in {LookupFull, LookupError} :
          lookupJsonSettles(i, data)
    \/ \E i \in 1..Len(calls) : analyzeFetchSettles(i, FALSE, 200)
    \/ \E i \in 1..Len(calls), data \in {AnalyzeFull, AnalyzeSparse} :
          analyzeJsonSettles(i, data)
    \/ \E metric \in Metrics : trendTabClick(metric)

TabsSpec == Init /\ [][TabsNext]_vars

\* updateAnalysisProgress on its own: the arguments are drawn at the start
PercentInputs == (0 - PercentSlack)..(ProgressFull + PercentSlack)
PromptInputs == 0..1

callUpdateAnalysisProgress ==
    /\ probe \in [percent : PercentInputs, used : PromptInputs, total : PromptInputs]
    /\ analysisProgress' = updateAnalysisProgress(probe.percent, probe.used, probe.total)
    /\ UNCHANGED <<wizardVars, step2Fields, analysisBar, timerVars, metricVars,
                   calls, probe>>

ClampInit ==
    /\ InitPage
    /\ probe \in [percent : PercentInputs, used : PromptInputs, total : PromptInputs]

ClampNext == callUpdateAnalysisProgress

ClampSpec == ClampInit /\ [][ClampNext]_vars

\* buildDatasetsFromSeries on its own, as updateChartsFromAnalysis calls it
\* for the visibility series.  The k-th series carries <<k>> as its values,
\* so series of one name are told apart.
BrandInputs == {<<"a">>, <<"b">>}
SeriesNameInputs == UNION {[1..n -> BrandInputs] : n \in 0..MaxSeries}
SeriesOf(names) == [k \in 1..Len(names) |-> [name |-> names[k], values |-> <<k>>]]

callBuildDatasetsFromSeries ==
    /\ probe \in [names : SeriesNameInputs, brandName : BrandInputs]
    /\ trendState' = [trendState EXCEPT !.visibilityDatasets =
                         buildDatasetsFromSeries(SeriesOf(probe.names), probe.brandName)]
    /\ UNCHANGED <<wizardVars, step2Fields, barVars, timerVars, cards,
                   visibilityTrendChart, mentionsDonutChart, trendTopicSelect,
                   trendChartsCreated, donutChartsCreated, calls, probe>>

DatasetsInit ==
    /\ InitPage
    /\ probe \in [names : SeriesNameInputs, brandName : BrandInputs]

DatasetsNext == callBuildDatasetsFromSeries

DatasetsSpec == DatasetsInit /\ [][DatasetsNext]_vars

\* ----------------------------------------------------------------- claims

\* C1: a /brand/lookup/ request and a /brand/analyze/ request are never
\* pending at the same time.
C1_LookupAnalyzeExclusive ==
    ~ /\ \E i \in 1..Len(calls) : calls[i].api = "lookup"
      /\ \E j \in 1..Len(calls) : calls[j].api = "analyze"

\* C2: a click that runs goToStep2 issues a lookup exactly when the name it
\* reads holds a character other than a blank: then one request is appended
\* and carries the name without its leading and trailing blanks; otherwise no
\* request is issued, the empty-name message is shown, and the step and the
\* enabled state of the advance control stay as they were.
C2_AdvanceIssuesIffNamed ==
    [][\A useRegenerate \in BOOLEAN :
         (IF useRegenerate THEN brandRegenerateBtnClick ELSE nextBtnClick) =>
         LET raw == IF useRegenerate THEN brandNameStep2 ELSE brandNameStep1
             blank == \A k \in 1..Len(raw) : raw[k] = SP
         IN IF blank
            THEN /\ calls' = calls
                 /\ errorBox' = [display |-> "block", textContent |-> MsgEmptyName]
                 /\ step1' = step1 /\ step2' = step2
                 /\ nextBtn'.disabled = nextBtn.disabled
            ELSE /\ Len(calls') = Len(calls) + 1
                 /\ SubSeq(calls', 1, Len(calls)) = calls
                 /\ LET sent == calls'[Len(calls')] IN
                      /\ sent.api = "lookup" /\ sent.pc = "fetch"
                      /\ sent.useRegenerate = useRegenerate
                      /\ sent.brandName /= <<>>
                      /\ Head(sent.brandName) /= SP
                      /\ sent.brandName[Len(sent.brandName)] /= SP
                      /\ \E lead \in 0..Len(raw) :
                            /\ \A k \in 1..lead : raw[k] = SP
                            /\ SubSeq(raw, lead + 1, lead + Len(sent.brandName))
                                  = sent.brandName
                            /\ \A k \in (lead + Len(sent.brandName) + 1)..Len(raw) :
                                  raw[k] = SP
    ]_vars

\* C2 witness: on step 2 a regenerated lookup is pending under its trimmed
\* name and a later Regenerate on a blank name was refused with the message.
C2_Witness ==
    /\ step2 /\ brandNameStep2 = <<SP>>
    /\ errorBox.textContent = MsgEmptyName
    /\ \E i \in 1..Len(calls) :
          calls[i].api = "lookup" /\ calls[i].useRegenerate /\ calls[i].brandName = <<"b">>

C4_AdvanceControlRestored ==
    /\ [][Cardinality({i \in 1..Len(calls') : calls'[i].api = "lookup"})
            < Cardinality({i \in 1..Len(calls) : calls[i].api = "lookup"})
          => nextBtn' = [disabled |-> FALSE, textContent |-> "Next"]]_vars
    /\ (nextBtn.disabled ~> ~nextBtn.disabled)

\* C4 witness: a lookup failed on the network and the control is enabled again.
C4_Witness ==
    /\ errorBox.textContent = MsgNetwork
    /\ nextBtn = [disabled |-> FALSE, textContent |-> "Next"]
    /\ calls = <<>>
    /\ step1

\* C5: a Create click on a blank step-2 brand name changes nothing: no
\* request, no timer, no change of the status bar, the wizard and the modal's
\* visibility as before the click.
C5_BlankCreateIsNoOp ==
    [][(createBtnClick /\ \A k \in 1..Len(brandNameStep2) : brandNameStep2[k] = SP)
        => UNCHANGED vars]_vars

\* C6: when an analyze request ends with a non-2xx status or a body that is
\* not JSON, the displayed progress is not set to 100 and the scorecards and
\* charts are not updated: display and metrics stay as they were.
C6_AnalyzeErrorNotRendered ==
    [][\A i \in 1..Len(calls), data \in AnalyzeBodies :
         /\ analyzeJsonSettles(i, data)
         /\ (~(calls[i].status \in 200..299) \/ data.kind = "invalid")
         => /\ analysisProgress' = analysisProgress
            /\ metricVars' = metricVars
    ]_vars

\* C7: when an analyze request fails on the network or its body is not JSON,
\* the step that handles the failure leaves no interval active and leaves the
\* status bar, the displayed percentage and prompt counts, the scorecards, the
\* trend datasets and the donut as they were.
C7_AnalyzeFailureFreezesBar ==
    [][(\/ \E i \in 1..Len(calls), status \in Statuses :
              analyzeFetchSettles(i, TRUE, status)
        \/ \E i \in 1..Len(calls) : analyzeJsonSettles(i, AnalyzeInvalid))
        => /\ progressInterval' = 0 /\ timers' = {}
           /\ analysisBar' = analysisBar
           /\ analysisProgress' = analysisProgress
           /\ metricVars' = metricVars
    ]_vars

\* C7 witness: an analyze call failed after the bar had advanced; no call is
\* pending, no interval is active and the bar is frozen between 0 and 100.
C7_Witness ==
    /\ calls = <<>> /\ timers = {} /\ progressInterval = 0
    /\ analysisBar
    /\ analysisProgress.percent > 0 /\ analysisProgress.percent < ProgressFull

\* C8: when an analyze request is answered 2xx with a JSON body, the step that
\* handles it leaves no interval active, displays 100 with the used/total
\* counts of the body (0 when absent), and renders the body into the
\* scorecards and the charts.
C8_AnalyzeSuccessCompletes ==
    [][\A i \in 1..Len(calls), data \in {AnalyzeFull, AnalyzeSparse} :
         /\ analyzeJsonSettles(i, data)
         /\ calls[i].status \in 200..299
         => /\ progressInterval' = 0 /\ timers' = {}
            /\ analysisProgress' =
                  IF data = AnalyzeFull
                  THEN [percent |-> 100, used |-> 3, total |-> 4]
                  ELSE [percent |-> 100, used |-> 0, total |-> 0]
            /\ cards' =
                  IF data = AnalyzeFull
                  THEN [label |-> <<"b">>, subtitle |-> <<"b">>, mentions |-> <<12, 5>>,
                        avgRank |-> <<3, 1>>, citations |-> 7]
                  ELSE [label |-> calls[i].brandName, subtitle |-> calls[i].brandName,
                        mentions |-> <<0, 0>>, avgRank |-> <<0, 0>>, citations |-> 0]
            /\ visibilityTrendChart' /= None
            /\ visibilityTrendChart'[1].labels = data.labels
            /\ Len(visibilityTrendChart'[1].datasets) = Len(data.visibility)
            /\ mentionsDonutChart' /= None
            /\ Len(mentionsDonutChart'[1].values) = Len(data.donut)
    ]_vars

\* C8 witness: a full response was rendered: 100 with 3 / 4 prompts, no
\* interval active, cards and charts filled.
C8_Witness ==
    /\ analysisProgress = [percent |-> 100, used |-> 3, total |-> 4]
    /\ timers = {} /\ progressInterval = 0
    /\ cards.citations = 7
    /\ visibilityTrendChart /= None /\ mentionsDonutChart /= None

\* C9: at most one interval is active in every reachable state, it is the one
\* progressInterval holds, and a step advances the visual percentage by
\* exactly 1 when it advances it.
C9_OneTimer ==
    /\ [] /\ Cardinality(timers) <= 1
          /\ timers = (IF progressInterval = 0 THEN {} ELSE {progressInterval})
    /\ [][visualProgress' > visualProgress
            => visualProgress' = visualProgress + 1]_vars

\* C9 witness: the animation was started twice with no stop in between (two
\* analyze calls are pending) and exactly one interval is active.
C9_Witness ==
    /\ Cardinality({i \in 1..Len(calls) : calls[i].api = "analyze"}) = 2
    /\ Cardinality(timers) = 1
    /\ visualProgress > 0

\* C10: the visual percentage stays within 0..90 and moves by +1 or back to
\* 0; a displayed percentage above 90 is 100 and is written only by a step
\* that ends an analyze call.
C10_TimerStopsAtCap ==
    /\ [] /\ visualProgress \in 0..90
          /\ (analysisProgress.percent > 90 => analysisProgress.percent = 100)
    /\ [][/\ visualProgress' \in {visualProgress, visualProgress + 1, 0}
          /\ (analysisProgress'.percent > 90 /\ analysisProgress' /= analysisProgress
                => Cardinality({i \in 1..Len(calls') : calls'[i].api = "analyze"})
                     < Cardinality({i \in 1..Len(calls) : calls[i].api = "analyze"}))
       ]_vars

\* C10 witness: the interval is still active with the animation at its cap.
C10_Witness ==
    /\ timers /= {}
    /\ visualProgress = 90
    /\ analysisProgress.percent = 90

\* C11: updateAnalysisProgress displays min(max(percent, 0), 100): 0 for a
\* negative percentage, 100 for one above 100, the percentage itself
\* otherwise, with the counts as given; the displayed percentage is within
\* 0..100 in every state.
C11_PercentClamped ==
    /\ [](analysisProgress.percent \in 0..100)
    /\ [][analysisProgress' /= analysisProgress =>
            analysisProgress' =
               [percent |-> IF probe.percent < 0 THEN 0
                            ELSE IF probe.percent > 100 THEN 100
                            ELSE probe.percent,
                used |-> probe.used, total |-> probe.total]]_vars

\* C11 witness: a negative percentage was given and 0 is displayed.
C11_Witness ==
    /\ probe /= <<>>
    /\ probe.percent < 0 /\ probe.used = 1
    /\ analysisProgress = [percent |-> 0, used |-> 1, total |-> probe.total]

\* the analyze requests that have not settled
PendingAnalyze(cs) == {i \in 1..Len(cs) : cs[i].api = "analyze"}

\* C12: every exit of the analyze operation releases the progress timer: the
\* step in which an analyze request settles (rendered, invalid JSON or
\* network error) leaves no interval registered and the handle null, also
\* while another analyze request is still pending, and in every state without
\* a pending analyze request no interval is registered, so no tick can fire.
C12_TimerReleased ==
    /\ [](PendingAnalyze(calls) = {} => timers = {} /\ progressInterval = 0)
    /\ [][Cardinality(PendingAnalyze(calls')) < Cardinality(PendingAnalyze(calls))
            => timers' = {} /\ progressInterval' = 0]_vars

\* C12 witness: an analyze request was submitted, the interval ticked, the
\* request failed, and nothing is left running.
C12_Witness ==
    /\ analysisBar /\ visualProgress > 0 /\ analysisProgress.percent < ProgressFull
    /\ PendingAnalyze(calls) = {}
    /\ timers = {}

\* C13: analyze requests are never cancelled or discarded.  A step that
\* shows or hides the modal keeps every pending request, and the step in
\* which a parseable analyze body arrives for any pending request, the latest
\* or an older one, modal open or closed, shows 100% with its counts, writes
\* the scorecards from it (the name of that request where the body has none)
\* and rebuilds both charts and the topic list from it.
C13_AnalyzeResponseApplied ==
    /\ [][backdrop' /= backdrop =>
            /\ Len(calls') >= Len(calls)
            /\ \A i \in 1..Len(calls) : calls'[i] = calls[i]]_vars
    /\ [][\A i \in 1..Len(calls), data \in AnalyzeBodies :
            analyzeJsonSettles(i, data) /\ data.kind = "object" =>
               /\ analysisProgress' =
                     [percent |-> 100,
                      used |-> IF data.used = None THEN 0 ELSE data.used[1],
                      total |-> IF data.total = None THEN 0 ELSE data.total[1]]
               /\ cards'.label =
                     IF data.brand = None THEN calls[i].brandName ELSE data.brand[1]
               /\ cards'.citations =
                     IF data.citations = None THEN 0 ELSE data.citations[1]
               /\ visibilityTrendChart' /= None
               /\ visibilityTrendChart'[1].labels = data.labels
               /\ Len(visibilityTrendChart'[1].datasets) = Len(data.visibility)
               /\ mentionsDonutChart' /= None
               /\ Len(mentionsDonutChart'[1].values) = Len(data.donut)
               /\ trendTopicSelect' =
                     <<<<>>>> \o parseTopics(calls[i].topicsText)]_vars

\* C13 witness: the modal was reopened, the request for "b" is still pending,
\* and the page shows 100% with the scorecard of the older request for "a".
C13_Witness ==
    /\ backdrop
    /\ analysisProgress.percent = 100
    /\ cards.label = <<"a">>
    /\ \E i \in PendingAnalyze(calls) : calls[i].brandName = <<"b">>

\* C14: the step in which a lookup settles successfully (2xx status, an
\* object body, no truthy error member) writes all six step-2 fields and
\* switches to step 2: name and description take the response member, or the
\* name and description sent in the request when the member is absent or
\* empty; url, region, language and topics take the response member, or the
\* empty string.  None of the six depends on what the field held before.
C14_LookupFillsStep2 ==
    [][\A i \in 1..Len(calls), data \in LookupBodies :
         /\ lookupJsonSettles(i, data)
         /\ calls[i].status = 200 /\ data.kind = "object"
         /\ (data.error = None \/ data.error[1] = "")
         =>
         /\ brandNameStep2' =
               IF data.brand_name = None \/ data.brand_name[1] = <<>>
               THEN calls[i].brandName ELSE data.brand_name[1]
         /\ brandDescStep2' =
               IF data.brand_description = None \/ data.brand_description[1] = <<>>
               THEN calls[i].brandDesc ELSE data.brand_description[1]
         /\ brandUrlStep2' = IF data.brand_url = None THEN <<>> ELSE data.brand_url[1]
         /\ brandRegionStep2' = IF data.region = None THEN <<>> ELSE data.region[1]
         /\ brandLangStep2' = IF data.language = None THEN <<>> ELSE data.language[1]
         /\ brandTopicsStep2' =
               IF data.initial_topics = None THEN <<>> ELSE data.initial_topics[1]
         /\ step1' = FALSE /\ step2' = TRUE]_vars

\* C14 witness: step 2 shown after a response with an empty name and no other
\* member: the name is the trimmed name sent, the description the one sent,
\* the url empty.
C14_Witness ==
    /\ step2 /\ ~step1 /\ modalTitle = "Configure Brand"
    /\ brandNameStep2 = <<"a">>
    /\ brandDescStep2 = <<"d", SP>>
    /\ brandUrlStep2 = <<>> /\ brandTopicsStep2 = <<>>

\* C15: buildDatasetsFromSeries returns min(n, 10) datasets, each a series
\* of the source; the first series carrying the focal name, wherever it
\* stands, comes first; the others follow in source order; none comes twice.
C15_FocalBrandFirst ==
    [][callBuildDatasetsFromSeries =>
         LET names == probe.names
             n == Len(names)
             out == trendState'.visibilityDatasets
             at == {k \in 1..n : names[k] = probe.brandName}
             f == IF at = {} THEN 0 ELSE CHOOSE k \in at : \A j \in at : k <= j
         IN /\ Len(out) = IF n < 10 THEN n ELSE 10
            /\ \A k \in 1..Len(out) :
                  /\ out[k].data[1] \in 1..n
                  /\ out[k].label = names[out[k].data[1]]
            /\ f /= 0 => out[1].label = probe.brandName /\ out[1].data = <<f>>
            /\ \A k \in 1..Len(out) :
                  f /= 0 /\ k > 1 => out[k].data[1] = IF k - 1 < f THEN k - 1 ELSE k
            /\ \A k \in 1..Len(out) : f = 0 => out[k].data[1] = k
            /\ \A j, k \in 1..Len(out) : j /= k => out[j].data /= out[k].data]_vars

\* C15 witness: eleven series, the focal brand "b" only in the eleventh; ten
\* datasets are returned, the eleventh series first, then the first nine.
C15_Witness ==
    /\ probe /= <<>>
    /\ probe.names = [k \in 1..11 |-> IF k = 11 THEN <<"b">> ELSE <<"a">>]
    /\ probe.brandName = <<"b">>
    /\ Len(trendState.visibilityDatasets) = 10
    /\ trendState.visibilityDatasets[1].data = <<11>>
    /\ trendState.visibilityDatasets[10].data = <<9>>

\* C16: the step that shows the modal resets the wizard whatever its state
\* was: step 1 active, the error box hidden and empty, the two fields of
\* step 1 and the six of step 2 empty, the advance control enabled and
\* labelled "Next", the modal visible; the progress bar, the interval, the
\* scorecards and the charts are as before.
C16_OpenResets ==
    [][~backdrop /\ backdrop' =>
         /\ step1' = TRUE /\ step2' = FALSE
         /\ errorBox' = [display |-> "none", textContent |-> ""]
         /\ brandNameStep1' = <<>> /\ brandDescStep1' = <<>>
         /\ step2Fields' = <<<<>>, <<>>, <<>>, <<>>, <<>>, <<>>>>
         /\ nextBtn' = [disabled |-> FALSE, textContent |-> "Next"]
         /\ UNCHANGED <<barVars, timerVars, metricVars>>]_vars

\* C16 witness: the modal is open again on an empty step 1 while the
\* interval started by a Create on step 2 runs and the scorecards show an
\* earlier result.
C16_Witness ==
    /\ backdrop /\ step1 /\ ~step2
    /\ brandNameStep1 = <<>> /\ brandNameStep2 = <<>> /\ brandUrlStep2 = <<>>
    /\ ~nextBtn.disabled
    /\ timers /= {} /\ analysisBar
    /\ cards.label /= <<>> /\ visibilityTrendChart /= None

\* C17: a click on a trend tab issues no request, keeps the stored labels,
\* visibility datasets and rank datasets, and shows the datasets of the
\* chosen metric with its axis configuration in the existing chart instance;
\* a chart is constructed only when there is none, so at most one trend chart
\* is ever constructed.
C17_TabSwitchOnlySwaps ==
    /\ [](trendChartsCreated \in 0..1)
    /\ [][\A metric \in Metrics : trendTabClick(metric) =>
            /\ calls' = calls
            /\ trendState'.labels = trendState.labels
            /\ trendState'.visibilityDatasets = trendState.visibilityDatasets
            /\ trendState'.rankDatasets = trendState.rankDatasets
            /\ visibilityTrendChart /= None => trendChartsCreated' = trendChartsCreated
            /\ visibilityTrendChart' =
                  <<[labels |-> trendState.labels,
                     datasets |-> IF metric = "rank" THEN trendState.rankDatasets
                                  ELSE trendState.visibilityDatasets,
                     beginAtZero |-> (metric /= "rank"),
                     yTitle |-> IF metric = "rank" THEN "Average Rank"
                                ELSE "Share of Voice (%)"]>>]_vars

\* C17 witness: after an analysis was rendered the rank tab was chosen: the
\* one chart shows the rank datasets, the visibility datasets are still stored.
C17_Witness ==
    /\ trendChartsCreated = 1 /\ visibilityTrendChart /= None
    /\ trendState.currentMetric = "rank"
    /\ trendState.rankDatasets /= <<>>
    /\ trendState.visibilityDatasets /= trendState.rankDatasets
    /\ visibilityTrendChart[1].datasets = trendState.rankDatasets
    /\ visibilityTrendChart[1].yTitle = "Average Rank"

\* the lookup requests that have not settled
PendingLookup(cs) == {i \in 1..Len(cs) : cs[i].api = "lookup"}

\* C18: while a lookup request is pending the advance control is disabled
\* and carries a busy label, and at most one lookup request is pending.
C18_OneLookupPending ==
    /\ [](Cardinality(PendingLookup(calls)) <= 1)
    /\ [](PendingLookup(calls) /= {} =>
            /\ nextBtn.disabled
            /\ nextBtn.textContent \in {"Generating...", "Re-generating..."})

\* C19: in every state with a pending analyze request an interval is
\* registered, and 100% is displayed only when no analyze request is pending.
C19_TimerRunsWhilePending ==
    /\ [](PendingAnalyze(calls) /= {} => timers /= {} /\ progressInterval /= 0)
    /\ [](analysisProgress.percent = 100 => PendingAnalyze(calls) = {})

\* C20: a lookup response is applied whatever happened to the modal since
\* the request was sent.  Arriving on a wizard that is on step 1 with every
\* field empty (closed and opened again meanwhile), a successful response
\* fills the fields of step 2 from the body and the old request and switches
\* to step 2, and a failed one shows its message.
C20_LateLookupApplied ==
    /\ [][\A i \in 1..Len(calls), data \in LookupBodies :
         /\ lookupJsonSettles(i, data)
         /\ backdrop /\ step1 /\ brandNameStep1 = <<>> /\ brandDescStep1 = <<>>
         /\ step2Fields = <<<<>>, <<>>, <<>>, <<>>, <<>>, <<>>>>
         =>
         IF calls[i].status = 200 /\ data.kind = "object"
            /\ (data.error = None \/ data.error[1] = "")
         THEN /\ step2' /\ ~step1'
              /\ brandNameStep2' =
                    IF data.brand_name = None \/ data.brand_name[1] = <<>>
                    THEN calls[i].brandName ELSE data.brand_name[1]
              /\ brandNameStep2' /= <<>>
              /\ brandDescStep2' =
                    IF data.brand_description = None \/ data.brand_description[1] = <<>>
                    THEN calls[i].brandDesc ELSE data.brand_description[1]
         ELSE /\ step1' /\ ~step2'
              /\ errorBox'.display = "block"
              /\ errorBox'.textContent /= ""]_vars
    /\ [][\A i \in 1..Len(calls) :
            /\ lookupFetchSettles(i, TRUE, 200)
            /\ backdrop /\ step1 /\ brandNameStep1 = <<>>
            =>
            /\ step1' /\ ~step2'
            /\ errorBox' = [display |-> "block",
                            textContent |-> "Something went wrong while contacting the server."]]_vars

\* C20 witness: the modal is open with step 1 left empty by the reset, yet
\* step 2 is shown, filled with the name and description of the request sent
\* before the modal was closed.
C20_Witness ==
    /\ backdrop /\ step2 /\ ~step1
    /\ brandNameStep1 = <<>> /\ brandDescStep1 = <<>>
    /\ brandNameStep2 = <<"a">> /\ brandDescStep2 = <<"d", SP>>

====
